---- MODULE Spec2Model ----
(***************************************************************************)
(* Rules engine of the Halve-It darts scorer (src/src/killer.js).          *)
(* Killer mode: processKillerDarts turns one thrower's darts into life     *)
(* change events, applyKillerChanges folds the events into the lives,      *)
(* killer and eliminated maps.                                             *)
(***************************************************************************)
EXTENDS Integers, Sequences, FiniteSets, TLC

(***************************************************************************)
(* Program constants                                                       *)
(***************************************************************************)
DARTBOARD_SEQUENCE ==
    <<20, 1, 18, 4, 13, 6, 10, 15, 2, 17, 3, 19, 7, 16, 8, 11, 14, 9, 12, 5>>

KILLER_MAX_LIVES == 9

KILLER_ELIMINATION_THRESHOLD == -1

\* A turn is three darts; a turn entered so far may hold fewer.
DartsPerTurn == 3

(***************************************************************************)
(* Bounds of the model                                                     *)
(***************************************************************************)
\* Longest event list handed directly to applyKillerChanges.
MaxEvents == 2

(***************************************************************************)
(* Roster and inputs                                                       *)
(***************************************************************************)
\* gameState.players, in roster order
players == <<"Alice", "Bob", "Charlie">>

Players == {players[i] : i \in 1..Len(players)}

\* gameState.killerNumbers: 20, 1 and 18 are consecutive on the board, so
\* one dart can be a player's own number and a neighbour of another's.
killerNumbers == [p \in Players |->
    CASE p = "Alice" -> 20 [] p = "Bob" -> 1 [] OTHER -> 18]

NoPlayer == "none"

Modifiers == {"single", "double", "triple"}

\* Dart numbers: miss, bull, the three chosen numbers, and 13 (nobody's
\* number, nobody's neighbour).
DartNumbers == {0, 25, 20, 1, 18, 13}

Darts == [number : DartNumbers, modifier : Modifiers]

RECURSIVE SeqsUpTo(_, _)
SeqsUpTo(S, n) ==
    IF n = 0 THEN {<<>>}
    ELSE LET shorter == SeqsUpTo(S, n - 1)
         IN  shorter \cup {Append(s, x) : s \in {t \in shorter : Len(t) = n - 1}, x \in S}

DartLists == SeqsUpTo(Darts, DartsPerTurn)

(***************************************************************************)
(* Helpers of the JavaScript runtime                                       *)
(***************************************************************************)
\* Array.prototype.includes
Includes(seq, x) == \E i \in 1..Len(seq) : seq[i] = x

\* Array.prototype.indexOf, 0-based, -1 when absent
IndexOf(seq, x) ==
    IF Includes(seq, x)
    THEN (CHOOSE i \in 1..Len(seq) :
              seq[i] = x /\ \A j \in 1..(i - 1) : seq[j] # x) - 1
    ELSE -1

Min(a, b) == IF a <= b THEN a ELSE b

(***************************************************************************)
(* killer.js                                                               *)
(***************************************************************************)
getKillerMultiplier(modifier) ==
    IF modifier = "double" THEN 2
    ELSE IF modifier = "triple" THEN 3
    ELSE 1

\* The same, with the index held at the ends of the sequence instead of
\* wrapping around.
getAdjacentNumbersNoWrap(num) ==
    IF num = 0 \/ num = 25 THEN <<>>
    ELSE LET idx == IndexOf(DARTBOARD_SEQUENCE, num)
             n   == Len(DARTBOARD_SEQUENCE)
         IN  IF idx = -1 THEN <<>>
             ELSE << DARTBOARD_SEQUENCE[(IF idx = 0 THEN 0 ELSE idx - 1) + 1],
                     DARTBOARD_SEQUENCE[(IF idx = n - 1 THEN idx ELSE idx + 1) + 1] >>

getAdjacentNumbers(num) ==
    IF num = 0 \/ num = 25 THEN <<>>
    ELSE LET idx == IndexOf(DARTBOARD_SEQUENCE, num)
             n   == Len(DARTBOARD_SEQUENCE)
         IN  IF idx = -1 THEN <<>>
             ELSE << DARTBOARD_SEQUENCE[((idx - 1 + n) % n) + 1],
                     DARTBOARD_SEQUENCE[((idx + 1) % n) + 1] >>

\* The same, with the multiplier forgotten on the neighbours.
GainEventsFlatAdjacent(dart, thrower, gameState) ==
    LET throwerNum == gameState.killerNumbers[thrower]
        throwerAdj == getAdjacentNumbers(throwerNum)
        multiplier == getKillerMultiplier(dart.modifier)
    IN  IF dart.number = throwerNum
        THEN <<[player |-> thrower, delta |-> 3 * multiplier, reason |-> "own"]>>
        ELSE IF Includes(throwerAdj, dart.number)
        THEN <<[player |-> thrower, delta |-> 1, reason |-> "adjacent"]>>
        ELSE <<>>

\* The thrower's own gain of one dart (lines 89-96): the event pushed, whose
\* delta is livesGained.
GainEvents(dart, thrower, gameState) ==
    LET throwerNum == gameState.killerNumbers[thrower]
        throwerAdj == getAdjacentNumbers(throwerNum)
        multiplier == getKillerMultiplier(dart.modifier)
    IN  IF dart.number = throwerNum
        THEN <<[player |-> thrower, delta |-> 3 * multiplier, reason |-> "own"]>>
        ELSE IF Includes(throwerAdj, dart.number)
        THEN <<[player |-> thrower, delta |-> 1 * multiplier, reason |-> "adjacent"]>>
        ELSE <<>>

\* The same, with the threshold missed when the tally is exactly 9.
BecomesKillerStrict(isThrowerKiller, runningLives) ==
    ~isThrowerKiller /\ runningLives > KILLER_MAX_LIVES

\* Line 99: the thrower becomes killer for the rest of the turn.
BecomesKiller(isThrowerKiller, runningLives) ==
    ~isThrowerKiller /\ runningLives >= KILLER_MAX_LIVES

\* The same, skipping the thrower alone.
SkipsOnlyThrower(otherPlayer, thrower, gameState) == otherPlayer = thrower

\* Line 105: the players the attack loop passes over.
SkipsPlayer(otherPlayer, thrower, gameState) ==
    otherPlayer = thrower \/ gameState.killerEliminated[otherPlayer]

\* The same, with the multiplier forgotten on the neighbours.
DamageEventsFlatAdjacent(dart, otherPlayer, gameState) ==
    LET otherNum   == gameState.killerNumbers[otherPlayer]
        otherAdj   == getAdjacentNumbers(otherNum)
        multiplier == getKillerMultiplier(dart.modifier)
    IN  IF dart.number = otherNum
        THEN <<[player |-> otherPlayer, delta |-> (-3) * multiplier, reason |-> "killed"]>>
        ELSE IF Includes(otherAdj, dart.number)
        THEN <<[player |-> otherPlayer, delta |-> -1, reason |-> "adj-killed"]>>
        ELSE <<>>

\* Lines 106-113: the damage one dart does to one opponent.
DamageEvents(dart, otherPlayer, gameState) ==
    LET otherNum   == gameState.killerNumbers[otherPlayer]
        otherAdj   == getAdjacentNumbers(otherNum)
        multiplier == getKillerMultiplier(dart.modifier)
    IN  IF dart.number = otherNum
        THEN <<[player |-> otherPlayer, delta |-> (-3) * multiplier, reason |-> "killed"]>>
        ELSE IF Includes(otherAdj, dart.number)
        THEN <<[player |-> otherPlayer, delta |-> (-1) * multiplier,
                reason |-> "adj-killed"]>>
        ELSE <<>>

\* The inner loop over the roster (lines 104-114), from roster index i on.
RECURSIVE AttackEvents(_, _, _, _)
AttackEvents(dart, thrower, gameState, i) ==
    IF i > Len(gameState.players) THEN <<>>
    ELSE LET otherPlayer == gameState.players[i]
             rest        == AttackEvents(dart, thrower, gameState, i + 1)
         IN  IF SkipsPlayer(otherPlayer, thrower, gameState)
             THEN rest
             ELSE DamageEvents(dart, otherPlayer, gameState) \o rest

\* The same, reading the killer status after the dart's own gain.
AttackGateAfterGain(wasKillerBeforeDart, isThrowerKiller) == isThrowerKiller

\* Line 103: the attack loop runs on the status as of the start of the dart.
AttackGate(wasKillerBeforeDart, isThrowerKiller) == wasKillerBeforeDart

\* One iteration of the loop over the darts (lines 83-116).  loc is the
\* loop's local state: changes, isThrowerKiller, runningLives.
DartStep(loc, dart, thrower, gameState) ==
    IF dart.number = 0 \/ dart.number = 25 THEN loc
    ELSE LET wasKillerBeforeDart == loc.isThrowerKiller
             gain         == GainEvents(dart, thrower, gameState)
             livesGained  == IF gain = <<>> THEN 0 ELSE gain[1].delta
             runningLives == loc.runningLives + livesGained
             isThrowerKiller ==
                 IF BecomesKiller(loc.isThrowerKiller, runningLives)
                 THEN TRUE ELSE loc.isThrowerKiller
             attack ==
                 IF AttackGate(wasKillerBeforeDart, isThrowerKiller)
                 THEN AttackEvents(dart, thrower, gameState, 1)
                 ELSE <<>>
         IN  [changes |-> loc.changes \o gain \o attack,
              isThrowerKiller |-> isThrowerKiller,
              runningLives |-> runningLives]

\* The loop's local state after the first n darts.
RECURSIVE KillerLoop(_, _, _, _)
KillerLoop(thrower, darts, gameState, n) ==
    IF n = 0
    THEN [changes |-> <<>>,
          isThrowerKiller |-> gameState.killerIsKiller[thrower],
          runningLives |-> gameState.killerLives[thrower]]
    ELSE DartStep(KillerLoop(thrower, darts, gameState, n - 1), darts[n],
                  thrower, gameState)

processKillerDarts(thrower, darts, gameState) ==
    KillerLoop(thrower, darts, gameState, Len(darts)).changes

\* Lines 137-141: the sum of the deltas of one player's events.
RECURSIVE Aggregated(_, _)
Aggregated(changes, player) ==
    IF changes = <<>> THEN 0
    ELSE (IF Head(changes).player = player THEN Head(changes).delta ELSE 0)
         + Aggregated(Tail(changes), player)

\* Whether the aggregate has an entry for the player (Object.entries).
HasEntry(changes, player) == \E i \in 1..Len(changes) : changes[i].player = player

\* The cap applied after each event instead of once to the sum.
RECURSIVE CappedFold(_, _, _)
CappedFold(changes, player, acc) ==
    IF changes = <<>> THEN acc
    ELSE CappedFold(Tail(changes), player,
                    IF Head(changes).player = player
                    THEN Min(acc + Head(changes).delta, KILLER_MAX_LIVES)
                    ELSE acc)

ApplyDeltasPerEvent(changes, lives) ==
    [p \in DOMAIN lives |-> CappedFold(changes, p, lives[p])]

\* The summed delta applied with no cap.
ApplyDeltasNoCap(changes, lives) ==
    [p \in DOMAIN lives |-> lives[p] + Aggregated(changes, p)]

\* Lines 143-146: apply the summed delta, cap at the maximum.
ApplyDeltas(changes, lives) ==
    [p \in DOMAIN lives |->
        IF HasEntry(changes, p)
        THEN Min(lives[p] + Aggregated(changes, p), KILLER_MAX_LIVES)
        ELSE lives[p]]

\* The killer flag recomputed from the lives alone.
UpdateKillerFromLives(newLives, isKiller, eliminated) ==
    [p \in DOMAIN newLives |-> ~eliminated[p] /\ newLives[p] >= KILLER_MAX_LIVES]

\* The same, with the flag set only above the maximum.
UpdateKillerAboveMax(newLives, isKiller, eliminated) ==
    [p \in DOMAIN newLives |->
        IF ~eliminated[p] /\ newLives[p] > KILLER_MAX_LIVES
        THEN TRUE ELSE isKiller[p]]

\* Lines 148-153: killer status, read against the eliminated map on input.
UpdateKiller(newLives, isKiller, eliminated) ==
    [p \in DOMAIN newLives |->
        IF ~eliminated[p] /\ newLives[p] >= KILLER_MAX_LIVES
        THEN TRUE ELSE isKiller[p]]

\* The same, with a player at exactly 0 lives eliminated too.
IsNewlyEliminatedAtZero(newLives, eliminated, p) ==
    ~eliminated[p] /\ newLives[p] <= 0

\* Line 158: the test of the elimination loop.
IsNewlyEliminated(newLives, eliminated, p) ==
    ~eliminated[p] /\ newLives[p] <= KILLER_ELIMINATION_THRESHOLD

\* The eliminated flag recomputed from the lives alone.
UpdateEliminatedFromLives(newLives, eliminated) ==
    [p \in DOMAIN newLives |-> newLives[p] <= KILLER_ELIMINATION_THRESHOLD]

\* Lines 155-162: the eliminated map after the loop.
UpdateEliminated(newLives, eliminated) ==
    [p \in DOMAIN newLives |->
        IF IsNewlyEliminated(newLives, eliminated, p) THEN TRUE ELSE eliminated[p]]

\* Lines 156-162: newlyEliminated, in the key order of the lives map (the
\* roster order).
NewlyEliminated(newLives, eliminated) ==
    SelectSeq(players, LAMBDA p : IsNewlyEliminated(newLives, eliminated, p))

applyKillerChanges(changes, lives, isKiller, eliminated) ==
    LET newLives == ApplyDeltas(changes, lives)
    IN  [lives           |-> newLives,
         isKiller        |-> UpdateKiller(newLives, isKiller, eliminated),
         eliminated      |-> UpdateEliminated(newLives, eliminated),
         newlyEliminated |-> NewlyEliminated(newLives, eliminated)]

\* players.filter(p => !eliminated[p]) (lines 174, 185)
AlivePlayers(roster, eliminated) == SelectSeq(roster, LAMBDA p : ~eliminated[p])

\* The same, over as soon as two players are left.
isKillerGameOverAtTwo(roster, eliminated) ==
    Len(AlivePlayers(roster, eliminated)) <= 2

isKillerGameOver(roster, eliminated) ==
    Len(AlivePlayers(roster, eliminated)) <= 1

\* The same, naming the first player alive whenever the game is not empty.
getKillerWinnerFirstAlive(roster, eliminated) ==
    LET alivePlayers == AlivePlayers(roster, eliminated)
    IN  IF Len(alivePlayers) >= 1 THEN alivePlayers[1] ELSE "null"

getKillerWinner(roster, eliminated) ==
    LET alivePlayers == AlivePlayers(roster, eliminated)
    IN  IF Len(alivePlayers) = 1 THEN alivePlayers[1] ELSE "null"

(***************************************************************************)
(* State                                                                   *)
(***************************************************************************)
VARIABLES
    killerLives,       \* player -> lives, as held by the turn controller
    killerIsKiller,    \* player -> killer flag
    killerEliminated,  \* player -> eliminated flag
    newlyEliminated,   \* newlyEliminated of the last applyKillerChanges
    thrower,           \* thrower of the last turn, NoPlayer if none
    darts,             \* darts of the last processKillerDarts
    changes,           \* events of the last processKillerDarts / applyKillerChanges
    prev,              \* the maps handed to the last call
    op,                \* "init", "turn" (a recorded turn), "apply", "game"
    clockPosition,     \* Clock: the player's position, as held by the controller
    clockStart,        \* Clock: the position the last turn started from
    clockDarts,        \* Clock: the darts argument of the last recorded call
    clockResult,       \* Clock: the object the last processClockDarts returned
    boardQuery,        \* Board: the two numbers last handed to getAdjacentNumbers
    boardResult,       \* Board: what getAdjacentNumbers returned for each
    contractDarts,     \* Contracts: the darts argument of the last evaluated turn
    contractResult,    \* Contracts: what the contract engine returned for it
    contractChecked    \* Contracts: a turn has been evaluated

killerVars == <<killerLives, killerIsKiller, killerEliminated, newlyEliminated,
                thrower, darts, changes, prev, op>>

clockVars == <<clockPosition, clockStart, clockDarts, clockResult>>

boardVars == <<boardQuery, boardResult>>

contractVars == <<contractDarts, contractResult, contractChecked>>

vars == <<killerVars, clockVars, boardVars, contractVars>>

\* JavaScript null / undefined
Null == "null"

\* A darts argument: a list, or null / undefined
NullDarts == [isNull |-> TRUE, items |-> <<>>]

ListOf(items) == [isNull |-> FALSE, items |-> items]

\* The engines that have not been called yet.
NoClockResult ==
    [endPosition |-> 1, lastDartHit |-> FALSE, finished |-> FALSE, extraTurn |-> FALSE]

ClockIdleAt(position) ==
    /\ clockPosition = position
    /\ clockStart = 0
    /\ clockDarts = NullDarts
    /\ clockResult = NoClockResult

ClockIdle == ClockIdleAt(1)

BoardIdle == boardQuery = <<>> /\ boardResult = <<>>

\* What a call gives: the value returned, or a TypeError thrown.
Returned(v) == [threw |-> FALSE, value |-> v]

NoContractResult == [meets |-> <<>>, score |-> <<>>, valid |-> Returned(<<>>)]

ContractIdle ==
    /\ contractDarts = NullDarts
    /\ contractResult = NoContractResult
    /\ contractChecked = FALSE

\* The gameState object the controller hands to processKillerDarts.
GameState ==
    [players          |-> players,
     killerNumbers    |-> killerNumbers,
     killerIsKiller   |-> killerIsKiller,
     killerLives      |-> killerLives,
     killerEliminated |-> killerEliminated]

Snapshot(la, lb, lc, ka, kb, kc) ==
    LET l == [p \in Players |->
                CASE p = "Alice" -> la [] p = "Bob" -> lb [] OTHER -> lc]
    IN  [lives      |-> l,
         isKiller   |-> [p \in Players |->
                CASE p = "Alice" -> ka [] p = "Bob" -> kb [] OTHER -> kc],
         eliminated |-> [p \in Players |-> l[p] <= KILLER_ELIMINATION_THRESHOLD]]

\* Game states a turn can start from: the start of a game, players near the
\* threshold, one and two killers, a killer brought below 9, eliminated
\* players with and without the killer flag.
Snapshots ==
    { Snapshot(0, 0, 0, FALSE, FALSE, FALSE),
      Snapshot(6, 5, 0, FALSE, FALSE, FALSE),
      Snapshot(8, 8, 7, FALSE, FALSE, FALSE),
      Snapshot(9, 5, 4, TRUE, FALSE, FALSE),
      Snapshot(9, 9, 3, TRUE, TRUE, FALSE),
      Snapshot(9, -1, 2, TRUE, FALSE, FALSE),
      Snapshot(5, 9, -3, TRUE, TRUE, FALSE),
      Snapshot(7, -2, 8, TRUE, TRUE, FALSE),
      Snapshot(0, 8, 9, FALSE, FALSE, TRUE) }

NoTurn == [lives |-> <<>>, isKiller |-> <<>>, eliminated |-> <<>>]

InitFrom(s) ==
    /\ killerLives = s.lives
    /\ killerIsKiller = s.isKiller
    /\ killerEliminated = s.eliminated
    /\ newlyEliminated = <<>>
    /\ thrower = NoPlayer
    /\ darts = <<>>
    /\ changes = <<>>
    /\ prev = s
    /\ op = "init"

Init ==
    /\ \E s \in Snapshots : InitFrom(s)
    /\ ClockIdle /\ BoardIdle /\ ContractIdle

\* The controller stores the result of applyKillerChanges.
Store(r) ==
    /\ killerLives' = r.lives
    /\ killerIsKiller' = r.isKiller
    /\ killerEliminated' = r.eliminated
    /\ newlyEliminated' = r.newlyEliminated

\* One turn: processKillerDarts for any thrower and darts, then
\* applyKillerChanges on its events; the inputs and the events are recorded.
Turn ==
    /\ op = "init"
    /\ \E t \in Players, ds \in DartLists :
        LET evs == processKillerDarts(t, ds, GameState)
        IN  /\ Store(applyKillerChanges(evs, killerLives, killerIsKiller,
                                        killerEliminated))
            /\ thrower' = t
            /\ darts' = ds
            /\ changes' = evs
    /\ prev' = [lives |-> killerLives, isKiller |-> killerIsKiller,
                eliminated |-> killerEliminated]
    /\ op' = "turn"
    /\ UNCHANGED <<clockVars, boardVars, contractVars>>

\* Events as a caller may hand them to applyKillerChanges directly.
EventSamples ==
    {e \in [player : Players, delta : {-9, -3, -1, 1, 3, 6}, reason : {"own", "killed"}] :
        (e.reason = "own") = (e.delta > 0)}

\* applyKillerChanges on an arbitrary event list.
ApplyEvents ==
    /\ op = "init"
    /\ \E evs \in SeqsUpTo(EventSamples, MaxEvents) :
        /\ Store(applyKillerChanges(evs, killerLives, killerIsKiller,
                                    killerEliminated))
        /\ changes' = evs
    /\ prev' = [lives |-> killerLives, isKiller |-> killerIsKiller,
                eliminated |-> killerEliminated]
    /\ op' = "apply"
    /\ UNCHANGED <<thrower, darts>>
    /\ UNCHANGED <<clockVars, boardVars, contractVars>>

Next == Turn \/ ApplyEvents

Spec == Init /\ [][Next]_vars

(***************************************************************************)
(* A game: turns in sequence from the start of a game.  The controller     *)
(* lets only non-eliminated players throw; the darts and events of a turn  *)
(* are not kept once the result is stored.                                 *)
(***************************************************************************)
GameInit ==
    /\ InitFrom(Snapshot(0, 0, 0, FALSE, FALSE, FALSE))
    /\ ClockIdle /\ BoardIdle /\ ContractIdle

\* Who may throw the next turn of a game.
MayThrow(t) == ~killerEliminated[t]

\* The darts of a game's turns: a miss and the triple ring of each player's
\* number, which keeps every life total a multiple of 3.
GameDarts ==
    {[number |-> 0, modifier |-> "single"]}
        \cup {[number |-> killerNumbers[p], modifier |-> "triple"] : p \in Players}

GameDartLists == SeqsUpTo(GameDarts, DartsPerTurn)

GameTurn ==
    /\ \E t \in Players, ds \in GameDartLists :
        /\ MayThrow(t)
        /\ Store(applyKillerChanges(processKillerDarts(t, ds, GameState),
                                    killerLives, killerIsKiller, killerEliminated))
        /\ thrower' = t
    /\ op' = "game"
    /\ UNCHANGED <<darts, changes, prev>>
    /\ UNCHANGED <<clockVars, boardVars, contractVars>>

GameNext == GameTurn

SpecGame == GameInit /\ [][GameNext]_vars

(***************************************************************************)
(* Properties of the Killer engine.                                        *)
(* The rules are restated here from the board and the recorded inputs, not *)
(* through the operators above.                                            *)
(***************************************************************************)
\* The two numbers next to n on the board.
BoardNeighbours(n) ==
    LET len == Len(DARTBOARD_SEQUENCE)
    IN  {DARTBOARD_SEQUENCE[k] : k \in {i \in 1..len :
            \/ DARTBOARD_SEQUENCE[(i % len) + 1] = n
            \/ DARTBOARD_SEQUENCE[((i + len - 2) % len) + 1] = n}}

Ring(dart) ==
    CASE dart.modifier = "double" -> 2 [] dart.modifier = "triple" -> 3 [] OTHER -> 1

IsSkipped(dart) == dart.number \in {0, 25}

IsDamage(e) == e.reason \in {"killed", "adj-killed"}

\* What dart d adds to the lives of player p when p throws it.
OwnGain(d, p) ==
    IF d.number = killerNumbers[p] THEN 3 * Ring(d)
    ELSE IF d.number \in BoardNeighbours(killerNumbers[p]) THEN Ring(d)
    ELSE 0

\* Whether dart d lands on opponent q's number or one of its neighbours.
Targets(d, q) ==
    d.number \in {killerNumbers[q]} \cup BoardNeighbours(killerNumbers[q])

\* The thrower's running tally after the first i darts of the recorded turn.
RECURSIVE Tally(_)
Tally(i) == IF i = 0 THEN prev.lives[thrower] ELSE Tally(i - 1) + OwnGain(darts[i], thrower)

\* The thrower is killer when dart j is thrown: flagged at the start of the
\* turn, or the tally reached 9 on an earlier dart.
KillerBeforeDart(j) ==
    prev.isKiller[thrower] \/ \E i \in 1..(j - 1) : Tally(i) >= 9

\* The gameState of the recorded turn.
PrevState ==
    [players          |-> players,
     killerNumbers    |-> killerNumbers,
     killerIsKiller   |-> prev.isKiller,
     killerLives      |-> prev.lives,
     killerEliminated |-> prev.eliminated]

\* The events dart j added to the recorded event list: the list grows by
\* appending, so they are what the first j darts add to the first j - 1.
EventsOfDart(j) ==
    SubSeq(changes,
           Len(processKillerDarts(thrower, SubSeq(darts, 1, j - 1), PrevState)) + 1,
           Len(processKillerDarts(thrower, SubSeq(darts, 1, j), PrevState)))

EventsFor(evs, p) == SelectSeq(evs, LAMBDA e : e.player = p)

HasDamage(evs) == \E k \in 1..Len(evs) : IsDamage(evs[k])

Named(p) == \E k \in 1..Len(changes) : changes[k].player = p

\* The sum of the deltas of the first n recorded events that name p.
RECURSIVE SumFor(_, _)
SumFor(p, n) ==
    IF n = 0 THEN 0
    ELSE SumFor(p, n - 1) + (IF changes[n].player = p THEN changes[n].delta ELSE 0)

Recorded == op \in {"turn", "apply"}

\* C1: a dart emits 'killed' / 'adj-killed' events only if the thrower was
\* flagged killer when the turn started or the running tally had reached 9
\* on a strictly earlier dart; the dart that first brings the tally to 9, and
\* every dart of a thrower who stays below 9, emits none.
C1_DamageOnlyAfterKiller ==
    op = "turn" =>
        \A j \in 1..Len(darts) : HasDamage(EventsOfDart(j)) => KillerBeforeDart(j)

\* A non-killer's dart brings the tally to 9, lands on a live opponent's
\* number or neighbour, and does no damage.
C1_Witness ==
    /\ op = "turn"
    /\ ~prev.isKiller[thrower]
    /\ \E j \in 1..Len(darts) :
        /\ Tally(j - 1) < 9
        /\ Tally(j) >= 9
        /\ \E q \in Players \ {thrower} : ~prev.eliminated[q] /\ Targets(darts[j], q)
        /\ ~HasDamage(EventsOfDart(j))

\* C2: once a non-killer thrower's tally reaches 9 on dart i, every later
\* dart j of the turn emits a damage event for each other non-eliminated
\* player whose number or neighbours contain dart j's number.
C2_LaterDartsAttack ==
    (op = "turn" /\ ~prev.isKiller[thrower]) =>
        \A i \in 1..Len(darts) : \A j \in (i + 1)..Len(darts) :
            Tally(i) >= 9 =>
                \A q \in Players \ {thrower} :
                    (~prev.eliminated[q] /\ Targets(darts[j], q)) =>
                        HasDamage(EventsFor(EventsOfDart(j), q))

\* The thrower becomes killer on dart 1 with the tally at exactly 9 and
\* damages an opponent with a later dart.
C2_Witness ==
    /\ op = "turn"
    /\ ~prev.isKiller[thrower]
    /\ Len(darts) >= 2
    /\ Tally(1) = 9
    /\ \E j \in 2..Len(darts) : \E q \in Players \ {thrower} :
        /\ ~prev.eliminated[q]
        /\ Targets(darts[j], q)
        /\ HasDamage(EventsFor(EventsOfDart(j), q))

\* C3: applyChanges gives every player named in the event list
\* min(prior lives + sum of that player's deltas, 9): the cap is applied once
\* to the sum, and there is no lower clamp.
C3_SumThenCap ==
    Recorded =>
        \A p \in Players :
            Named(p) =>
                killerLives[p] = Min(prev.lives[p] + SumFor(p, Len(changes)), 9)

\* Prior 8 with events +6 then -3 gives 9.
C3_Witness ==
    /\ op = "apply"
    /\ \E p \in Players :
        /\ prev.lives[p] = 8
        /\ Len(changes) = 2
        /\ changes[1].player = p /\ changes[1].delta = 6
        /\ changes[2].player = p /\ changes[2].delta = -3
        /\ killerLives[p] = 9

\* C4: in every state of a game, every player's lives are at most 9.
C4_LivesAtMostNine ==
    \A p \in Players : killerLives[p] <= 9

\* Two killers at 9 lives after one of them was brought below 9 and climbed
\* back, with the third player eliminated.
C4_Witness ==
    /\ op = "game"
    /\ \E p, q, r \in Players :
        /\ p # q
        /\ killerLives[p] = 9 /\ killerLives[q] = 9
        /\ killerIsKiller[p] /\ killerIsKiller[q]
        /\ killerEliminated[r]

\* C5: in every state of a game played by non-eliminated throwers, a player
\* is eliminated if and only if that player's lives are -1 or lower.
C5_EliminatedIffBelowZero ==
    \A p \in Players : killerEliminated[p] <=> (killerLives[p] <= -1)

\* A killer brought down to exactly 0 lives is still in the game, beside an
\* eliminated player.
C5_Witness ==
    /\ op = "game"
    /\ \E p, q \in Players :
        /\ killerLives[p] = 0 /\ killerIsKiller[p] /\ ~killerEliminated[p]
        /\ killerEliminated[q] /\ killerLives[q] <= -1

\* C6: for a player eliminated on input, events still change the life
\* number, the eliminated flag stays true and the player is not listed in
\* newlyEliminated.
C6_EliminationOneWay ==
    Recorded =>
        \A p \in Players :
            prev.eliminated[p] =>
                /\ killerEliminated[p]
                /\ ~Includes(newlyEliminated, p)
                /\ killerLives[p] =
                     IF Named(p)
                     THEN Min(prev.lives[p] + SumFor(p, Len(changes)), 9)
                     ELSE prev.lives[p]

\* An eliminated player's events lift the lives above -1 and the flag stays.
C6_Witness ==
    /\ op = "apply"
    /\ \E p \in Players :
        /\ prev.eliminated[p]
        /\ Named(p)
        /\ killerLives[p] > -1
        /\ killerLives[p] # prev.lives[p]
        /\ killerEliminated[p]

\* C7: once a player's killer flag is true it stays true in every later
\* state of a game.
C7_KillerMonotonic ==
    [][\A p \in Players : killerIsKiller[p] => killerIsKiller'[p]]_vars

\* A killer below 9 lives, and a killer who is eliminated.
C7_Witness ==
    /\ op = "game"
    /\ \E p, q \in Players :
        /\ killerIsKiller[p] /\ ~killerEliminated[p] /\ killerLives[p] < 9
        /\ killerIsKiller[q] /\ killerEliminated[q]

\* C8: no damage event names an eliminated player, and an eliminated player
\* who is not the thrower keeps their lives.
C8_EliminatedNotTargeted ==
    op = "turn" =>
        /\ \A k \in 1..Len(changes) :
              IsDamage(changes[k]) => ~prev.eliminated[changes[k].player]
        /\ \A p \in Players \ {thrower} :
              prev.eliminated[p] =>
                  (~Named(p) /\ killerLives[p] = prev.lives[p])

\* A killer's dart lands on an eliminated opponent's number.
C8_Witness ==
    /\ op = "turn"
    /\ \E j \in 1..Len(darts) : \E q \in Players \ {thrower} :
        /\ KillerBeforeDart(j)
        /\ prev.eliminated[q]
        /\ darts[j].number = killerNumbers[q]
        /\ killerLives[q] = prev.lives[q]

\* What a killer's dart d does to opponent q.
ExpectedDamage(d, q) ==
    IF d.number = killerNumbers[q]
    THEN <<[player |-> q, delta |-> (-3) * Ring(d), reason |-> "killed"]>>
    ELSE IF d.number \in BoardNeighbours(killerNumbers[q])
    THEN <<[player |-> q, delta |-> (-1) * Ring(d), reason |-> "adj-killed"]>>
    ELSE <<>>

\* C9: a dart (not miss, not bull) thrown while the thrower is killer gives
\* each other non-eliminated player exactly one 'killed' event of -3 x
\* multiplier on that player's number, else exactly one 'adj-killed' event of
\* -1 x multiplier on a neighbour, else none.
C9_DamagePerOpponent ==
    op = "turn" =>
        \A j \in 1..Len(darts) :
            (~IsSkipped(darts[j]) /\ KillerBeforeDart(j)) =>
                \A q \in Players \ {thrower} :
                    ~prev.eliminated[q] =>
                        EventsFor(EventsOfDart(j), q) = ExpectedDamage(darts[j], q)

\* One double dart gains lives for the thrower, kills one opponent and
\* damages the other through adjacency.
C9_Witness ==
    /\ op = "turn"
    /\ \E j \in 1..Len(darts) : \E q, r \in Players \ {thrower} :
        /\ darts[j].modifier = "double"
        /\ EventsOfDart(j) =
             <<[player |-> thrower, delta |-> 2, reason |-> "adjacent"],
               [player |-> q, delta |-> -2, reason |-> "adj-killed"],
               [player |-> r, delta |-> -6, reason |-> "killed"]>>

\* What dart d gives the player p who throws it.
ExpectedGain(d, p) ==
    IF d.number = killerNumbers[p]
    THEN <<[player |-> p, delta |-> 3 * Ring(d), reason |-> "own"]>>
    ELSE IF d.number \in BoardNeighbours(killerNumbers[p])
    THEN <<[player |-> p, delta |-> Ring(d), reason |-> "adjacent"]>>
    ELSE <<>>

\* C10: a miss or bull of any ring produces no event and leaves the
\* turn-local killer status unchanged; any other dart produces for the
\* thrower exactly one 'own' event of +3 x multiplier on the thrower's number,
\* exactly one 'adjacent' event of +1 x multiplier on a neighbour, else none.
C10_GainPerDart ==
    op = "turn" =>
        \A j \in 1..Len(darts) :
            IF IsSkipped(darts[j])
            THEN /\ EventsOfDart(j) = <<>>
                 /\ KillerLoop(thrower, darts, PrevState, j).isThrowerKiller
                      = KillerLoop(thrower, darts, PrevState, j - 1).isThrowerKiller
            ELSE EventsFor(EventsOfDart(j), thrower) = ExpectedGain(darts[j], thrower)

\* A turn of a triple on the own number, a double on a neighbour and a bull.
C10_Witness ==
    /\ op = "turn"
    /\ Len(darts) = 3
    /\ darts[1].number = killerNumbers[thrower] /\ darts[1].modifier = "triple"
    /\ darts[2].number \in BoardNeighbours(killerNumbers[thrower])
    /\ darts[2].modifier = "double"
    /\ darts[3].number = 25
    /\ EventsFor(changes, thrower) =
         <<[player |-> thrower, delta |-> 9, reason |-> "own"],
           [player |-> thrower, delta |-> 2, reason |-> "adjacent"]>>

\* The players still in the game.
Alive == {p \in Players : ~killerEliminated[p]}

\* C11: isGameOver is true if and only if at most one player of the roster
\* is non-eliminated; getWinner returns p exactly when p is the only
\* non-eliminated player, and none when zero or two or more are.
C11_GameOverAndWinner ==
    /\ isKillerGameOver(players, killerEliminated) <=> (Cardinality(Alive) <= 1)
    /\ \A p \in Players :
          (getKillerWinner(players, killerEliminated) = p) <=> (Alive = {p})
    /\ Cardinality(Alive) # 1 => getKillerWinner(players, killerEliminated) = Null

\* A turn leaves exactly one player in the game, who is the winner.
C11_Witness ==
    /\ op = "turn"
    /\ Cardinality({p \in Players : ~prev.eliminated[p]}) = 2
    /\ Cardinality(Alive) = 1
    /\ isKillerGameOver(players, killerEliminated)
    /\ getKillerWinner(players, killerEliminated) \in Alive

(***************************************************************************)
(* clock.js                                                                *)
(***************************************************************************)

CLOCK_POSITION_BULL == 11

CLOCK_POSITION_FINISHED == 12

getMultiplier(modifier) ==
    IF modifier = "double" THEN 2
    ELSE IF modifier = "triple" THEN 3
    ELSE 1

\* What a dart is compared with: the target as it stands at that dart.
CurrentTargetAtStart(pos, startPosition) == startPosition

CurrentTarget(pos, startPosition) == pos

\* pos = pos + advance, without the cap at Bull.
AdvanceUncapped(pos, dart) == pos + getMultiplier(dart.modifier)

\* pos = pos + advance; if (pos > CLOCK_POSITION_BULL) pos = CLOCK_POSITION_BULL
Advance(pos, dart) ==
    LET advanced == pos + getMultiplier(dart.modifier)
    IN  IF advanced > CLOCK_POSITION_BULL THEN CLOCK_POSITION_BULL ELSE advanced

\* The Bull test, accepting the outer bull only.
HitsBullSingleOnly(dart) == dart.number = 25 /\ dart.modifier = "single"

\* dart.number === 25
HitsBull(dart) == dart.number = 25

\* lastDartHit = hit, whatever the index of the dart.
LastDartHitAnyIndex(i, length, hit) == hit

\* lastDartHit = (i === darts.length - 1) && hit, with i counted from 0
LastDartHit(i, length, hit) == (i = length - 1) /\ hit

\* One iteration of the loop body after the break test, on loc = [pos, lastDartHit].
ClockStep(loc, dart, i, length, startPosition) ==
    LET target == CurrentTarget(loc.pos, startPosition)
        hit == IF loc.pos <= 10 THEN dart.number = target ELSE HitsBull(dart)
        pos == IF ~hit THEN loc.pos
               ELSE IF loc.pos <= 10 THEN Advance(loc.pos, dart)
               ELSE CLOCK_POSITION_FINISHED
    IN  [pos |-> pos, lastDartHit |-> LastDartHit(i, length, hit)]

\* The loop over darts[i..], i counted from 0, with its break.
RECURSIVE ClockLoop(_, _, _, _)
ClockLoop(loc, items, i, startPosition) ==
    IF i >= Len(items) THEN loc
    ELSE IF loc.pos >= CLOCK_POSITION_FINISHED THEN loc
    ELSE ClockLoop(ClockStep(loc, items[i + 1], i, Len(items), startPosition),
                   items, i + 1, startPosition)

\* The early return, sending the player back to the first target.
EmptyResultFromOne(startPosition) ==
    [endPosition |-> 1, lastDartHit |-> FALSE, finished |-> FALSE, extraTurn |-> FALSE]

\* The early return for no darts.
EmptyResult(startPosition) ==
    [endPosition |-> startPosition, lastDartHit |-> FALSE,
     finished |-> FALSE, extraTurn |-> FALSE]

\* extraTurn granted on any last-dart hit.
ExtraTurnWhenFinished(lastDartHit, finished) == lastDartHit

\* extraTurn = lastDartHit && !finished
ExtraTurn(lastDartHit, finished) == lastDartHit /\ ~finished

processClockDarts(dartsArg, startPosition) ==
    IF dartsArg.isNull \/ Len(dartsArg.items) = 0 THEN EmptyResult(startPosition)
    ELSE LET loc == ClockLoop([pos |-> startPosition, lastDartHit |-> FALSE],
                              dartsArg.items, 0, startPosition)
             finished == loc.pos >= CLOCK_POSITION_FINISHED
         IN  [endPosition |-> IF finished THEN CLOCK_POSITION_FINISHED ELSE loc.pos,
              lastDartHit |-> loc.lastDartHit,
              finished |-> finished,
              extraTurn |-> ExtraTurn(loc.lastDartHit, finished)]

\* The preview left at the position the turn started from.
getClockPreviewTargetStale(dartsArg, startPosition) == startPosition

getClockPreviewTarget(dartsArg, startPosition) ==
    processClockDarts(dartsArg, startPosition).endPosition

(***************************************************************************)
(* Clock: one recorded call from any position                              *)
(***************************************************************************)

\* The darts of a Clock turn: every ring of the targets 1..10, a number that
\* is never a target, both bulls and a miss.
ClockDarts ==
    [number : 1..10, modifier : Modifiers]
        \cup {[number |-> 20, modifier |-> "single"],
              [number |-> 25, modifier |-> "single"],
              [number |-> 25, modifier |-> "double"],
              [number |-> 0, modifier |-> "miss"]}

ClockArgs == {ListOf(ds) : ds \in SeqsUpTo(ClockDarts, DartsPerTurn)} \cup {NullDarts}

\* The positions a player can be at: the targets 1..10, Bull, finished.
ClockPositions == 1..CLOCK_POSITION_FINISHED

ClockInit ==
    /\ InitFrom(Snapshot(0, 0, 0, FALSE, FALSE, FALSE))
    /\ \E position \in ClockPositions : ClockIdleAt(position)
    /\ BoardIdle /\ ContractIdle

\* One recorded call: the darts are processed from the player's position,
\* and the player's position becomes the returned endPosition.
ClockTurn ==
    /\ clockStart = 0
    /\ \E dartsArg \in ClockArgs :
          LET result == processClockDarts(dartsArg, clockPosition)
          IN  /\ clockStart' = clockPosition
              /\ clockDarts' = dartsArg
              /\ clockResult' = result
              /\ clockPosition' = result.endPosition
    /\ UNCHANGED <<killerVars, boardVars, contractVars>>

ClockNext == ClockTurn

SpecClock == ClockInit /\ [][ClockNext]_vars

(***************************************************************************)
(* Clock: turns chained from position 1                                    *)
(***************************************************************************)

\* The darts of a game: ClockDarts without the number that is never a target,
\* which no position tells from a miss.
ClockGameDarts == {d \in ClockDarts : d.number # 20}

ClockGameArgs ==
    {ListOf(ds) : ds \in SeqsUpTo(ClockGameDarts, DartsPerTurn)} \cup {NullDarts}

ClockGameInit ==
    /\ InitFrom(Snapshot(0, 0, 0, FALSE, FALSE, FALSE))
    /\ ClockIdle /\ BoardIdle /\ ContractIdle

\* One turn of a game: as ClockTurn, turn after turn, the darts not kept.
ClockGameTurn ==
    /\ \E dartsArg \in ClockGameArgs :
          LET result == processClockDarts(dartsArg, clockPosition)
          IN  /\ clockStart' = clockPosition
              /\ clockResult' = result
              /\ clockPosition' = result.endPosition
    /\ UNCHANGED clockDarts
    /\ UNCHANGED <<killerVars, boardVars, contractVars>>

ClockGameNext == ClockGameTurn

SpecClockGame == ClockGameInit /\ [][ClockGameNext]_vars

(***************************************************************************)
(* Clock: the preview while the darts of one turn are entered              *)
(***************************************************************************)

\* Dart entry begins: no dart yet, the preview shows the player's position.
BeginEntry ==
    /\ clockStart = 0
    /\ clockStart' = clockPosition
    /\ clockDarts' = ListOf(<<>>)
    /\ clockResult' = processClockDarts(ListOf(<<>>), clockPosition)
    /\ clockPosition' = getClockPreviewTarget(ListOf(<<>>), clockPosition)
    /\ UNCHANGED <<killerVars, boardVars, contractVars>>

\* One more dart is entered: the preview moves on from the target shown
\* before it, and the turn entered so far is processed from the position
\* the turn started at.
EnterClockDart ==
    /\ clockStart # 0
    /\ Len(clockDarts.items) < DartsPerTurn
    /\ \E dart \in ClockDarts :
          LET entered == ListOf(Append(clockDarts.items, dart))
          IN  /\ clockDarts' = entered
              /\ clockPosition' = getClockPreviewTarget(ListOf(<<dart>>), clockPosition)
              /\ clockResult' = processClockDarts(entered, clockStart)
    /\ UNCHANGED clockStart
    /\ UNCHANGED <<killerVars, boardVars, contractVars>>

ClockPreviewNext == BeginEntry \/ EnterClockDart

SpecClockPreview == ClockInit /\ [][ClockPreviewNext]_vars

(***************************************************************************)
(* Clock: the rules as the claims state them                               *)
(***************************************************************************)

\* A call of processClockDarts has been recorded.
ClockCalled == clockStart # 0

ClockItems == clockDarts.items

\* The position after the first j darts of the recorded list: the call
\* evaluated on that prefix.
PosAfter(j) ==
    IF j = 0 THEN clockStart
    ELSE processClockDarts(ListOf(SubSeq(ClockItems, 1, j)), clockStart).endPosition

\* Dart d matches the target of position p.
TargetHit(p, d) == (p \in 1..10 /\ d.number = p) \/ (p = 11 /\ d.number = 25)

\* C12: while the position is 1..10 a hit advances it by the dart's
\* multiplier, capped at 11; a dart on a number target never gives 12, and 12
\* is reached only by a dart with number 25 evaluated at position 11.
C12_AdvanceCappedAtBull ==
    ClockCalled =>
        LET pos == [i \in 0..Len(ClockItems) |-> PosAfter(i)]
        IN  \A j \in 1..Len(ClockItems) :
            LET p == pos[j - 1]
                q == pos[j]
                d == ClockItems[j]
            IN  /\ (p \in 1..10 /\ d.number = p) =>
                      q = (IF p + Ring(d) > 11 THEN 11 ELSE p + Ring(d))
                /\ p \in 1..10 => q # 12
                /\ (p < 12 /\ q = 12) => (p = 11 /\ d.number = 25)

\* A triple on the target 10 stops at Bull, and the bull that follows finishes.
C12_Witness ==
    /\ clockStart = 10
    /\ Len(ClockItems) = 2
    /\ ClockItems[1] = [number |-> 10, modifier |-> "triple"]
    /\ ClockItems[2].number = 25
    /\ PosAfter(1) = 11
    /\ clockResult.endPosition = 12

\* C13: at position 11 a dart is a hit if and only if its number is 25,
\* whatever its ring; a hit sets the position to 12, any other dart leaves
\* it at 11.
C13_BullFinishes ==
    ClockCalled =>
        \A j \in 1..Len(ClockItems) :
            LET d == ClockItems[j]
                q == PosAfter(j)
            IN  PosAfter(j - 1) = 11 =>
                   /\ d.number = 25 => q = 12
                   /\ d.number # 25 => q = 11
                   /\ j = Len(ClockItems) =>
                         (clockResult.lastDartHit <=> d.number = 25)

\* A double bull at position 11 finishes.
C13_Witness ==
    /\ clockStart = 11
    /\ ClockItems = <<[number |-> 25, modifier |-> "double"]>>
    /\ clockResult.endPosition = 12
    /\ clockResult.lastDartHit

\* The index of the last dart processed: the last one evaluated before the
\* position was 12 (0 when none was).
LastProcessed ==
    IF \E j \in 1..Len(ClockItems) : PosAfter(j - 1) < 12
    THEN CHOOSE j \in 1..Len(ClockItems) :
            /\ PosAfter(j - 1) < 12
            /\ \A k \in (j + 1)..Len(ClockItems) : PosAfter(k - 1) >= 12
    ELSE 0

\* C14 as stated: lastDartHit is true if and only if the last dart processed
\* (the final dart or, when the turn stops early at 12, the finishing dart)
\* was a hit.
C14_LastProcessedHit ==
    ClockCalled =>
        (clockResult.lastDartHit <=>
            /\ LastProcessed > 0
            /\ TargetHit(PosAfter(LastProcessed - 1), ClockItems[LastProcessed]))

\* C14, amended: lastDartHit is true if and only if the final dart of the
\* list was evaluated and was a hit; when the turn stops early because an
\* earlier dart reached 12, lastDartHit is false.
C14_FinalDartHit ==
    ClockCalled =>
        LET n == Len(ClockItems)
            p == PosAfter(n - 1)
        IN  /\ clockResult.lastDartHit <=>
                  /\ n > 0
                  /\ p < 12
                  /\ TargetHit(p, ClockItems[n])
            /\ (n > 0 /\ clockStart < 12 /\ p >= 12) =>
                  ~clockResult.lastDartHit

\* Three darts from position 11 whose first dart is a bull.
C14_Witness ==
    /\ clockStart = 11
    /\ Len(ClockItems) = 3
    /\ ClockItems[1].number = 25
    /\ LastProcessed = 1
    /\ clockResult.finished
    /\ ~clockResult.lastDartHit

\* C15: extraTurn is true exactly when the final dart of the list hit the
\* target current when it was evaluated and the turn did not end in the
\* finished position.
C15_ExtraTurn ==
    ClockCalled =>
        LET n == Len(ClockItems)
        IN  clockResult.extraTurn <=>
               /\ n > 0
               /\ TargetHit(PosAfter(n - 1), ClockItems[n])
               /\ clockResult.endPosition # 12

\* A third dart that hits the second target of the turn grants an extra turn.
C15_Witness ==
    /\ clockStart \in 1..9
    /\ Len(ClockItems) = 3
    /\ PosAfter(2) > clockStart
    /\ TargetHit(PosAfter(2), ClockItems[3])
    /\ clockResult.extraTurn
    /\ ~clockResult.finished

\* C16: for every start position 1..12 and every list of 0..3 darts, the
\* empty and the absent list included, finished is true if and only if
\* endPosition is 12; a start position of 12 always yields finished = true
\* with endPosition 12.
C16_FinishedIffTwelve ==
    ClockCalled =>
        /\ clockResult.finished <=> clockResult.endPosition = 12
        /\ clockStart = 12 => (clockResult.finished /\ clockResult.endPosition = 12)

\* C17: in a game from position 1 the position is always in 1..12, is 12
\* whenever it exceeds 11, and never decreases from one turn to the next.
C17_PositionMonotonic ==
    [][/\ clockPosition \in 1..12
       /\ clockPosition' \in 1..12
       /\ clockPosition' >= clockPosition
       /\ clockResult'.endPosition = clockPosition'
       /\ clockStart' = clockPosition]_vars

\* A later turn of a game takes the player from Bull to finished.
C17_Witness ==
    /\ clockStart = 11
    /\ clockPosition = 12
    /\ clockResult.finished

\* The position after the first j darts, by the rule: a dart matching the
\* target of the moment advances, any other dart changes nothing.
RECURSIVE Walk(_)
Walk(j) ==
    IF j = 0 THEN clockStart
    ELSE LET p == Walk(j - 1)
             d == ClockItems[j]
         IN  IF p >= 12 THEN 12
             ELSE IF p = 11 THEN (IF d.number = 25 THEN 12 ELSE 11)
             ELSE IF d.number # p THEN p
             ELSE IF p + Ring(d) > 11 THEN 11
             ELSE p + Ring(d)

\* C18: each dart is evaluated against the target current at that point of
\* the turn: after an earlier dart advanced the position a later dart hits
\* only if its number equals the new position; a dart on a passed target or
\* on any non-matching number leaves the position unchanged.
C18_SequentialTargets ==
    (ClockCalled /\ Len(ClockItems) > 0) =>
        /\ clockResult.endPosition = Walk(Len(ClockItems))
        /\ LET pos == [j \in 0..Len(ClockItems) |-> PosAfter(j)]
           IN  \A j \in 1..Len(ClockItems) :
                  LET p == pos[j - 1]
                      q == pos[j]
                  IN  /\ q # p => TargetHit(p, ClockItems[j])
                      /\ (p < 12 /\ ~TargetHit(p, ClockItems[j])) => q = p

\* The first dart advances, the second is on the new target and advances,
\* the third is on the target already passed and changes nothing.
C18_Witness ==
    /\ ClockCalled
    /\ Len(ClockItems) = 3
    /\ PosAfter(1) > clockStart
    /\ ClockItems[2].number = PosAfter(1)
    /\ PosAfter(2) > PosAfter(1)
    /\ ClockItems[3].number = clockStart
    /\ clockResult.endPosition = PosAfter(2)

(***************************************************************************)
(* Board geometry: getAdjacentNumbers on any two numbers                   *)
(***************************************************************************)

\* The numbers asked about: 1..20, miss, bull, and numbers not on the board.
BoardInputs == (-1)..25

BoardInit ==
    /\ InitFrom(Snapshot(0, 0, 0, FALSE, FALSE, FALSE))
    /\ ClockIdle /\ BoardIdle /\ ContractIdle

\* The neighbours of two numbers are looked up.
BoardLookup ==
    /\ \E n \in BoardInputs, m \in BoardInputs :
          /\ boardQuery' = <<n, m>>
          /\ boardResult' = <<getAdjacentNumbers(n), getAdjacentNumbers(m)>>
    /\ UNCHANGED <<killerVars, clockVars, contractVars>>

BoardNext == BoardLookup

SpecBoard == BoardInit /\ [][BoardNext]_vars

\* The numbers of the board sequence.
BoardNumbers == {DARTBOARD_SEQUENCE[i] : i \in 1..Len(DARTBOARD_SEQUENCE)}

\* C19: for every n in 1..20 getAdjacentNumbers(n) is a pair of two distinct
\* board numbers, both different from n; if it is [l, r], the second element
\* of getAdjacentNumbers(l) and the first of getAdjacentNumbers(r) are n.
\* For 0, 25, 21 and -1 the result is empty.
C19_AdjacentPairSymmetric ==
    Len(boardQuery) = 2 =>
        LET n == boardQuery[1]
            m == boardQuery[2]
            ofN == boardResult[1]
            ofM == boardResult[2]
        IN  /\ n \in 1..20 =>
                  /\ Len(ofN) = 2
                  /\ ofN[1] # ofN[2]
                  /\ {ofN[1], ofN[2]} \subseteq BoardNumbers \ {n}
                  /\ m = ofN[1] => (Len(ofM) = 2 /\ ofM[2] = n)
                  /\ m = ofN[2] => (Len(ofM) = 2 /\ ofM[1] = n)
            /\ n \in {0, 25, 21, -1} => ofN = <<>>

\* 20 asked together with its left neighbour 5, across the end of the sequence.
C19_Witness ==
    /\ boardQuery = <<20, 5>>
    /\ boardResult = << <<5, 1>>, <<12, 20>> >>

(***************************************************************************)
(* contracts.js                                                            *)
(***************************************************************************)

\* The bull test, whatever the ring.
isAnyBull(dart) == dart.number = 25

\* const isSingleBull = (dart) => dart.number === 25 && dart.modifier === 'single'
isSingleBull(dart) == dart.number = 25 /\ dart.modifier = "single"

\* [..].filter(n => n !== 0 && n !== 25)
BoardNums(dart1, dart2, dart3) ==
    SelectSeq(<<dart1.number, dart2.number, dart3.number>>,
              LAMBDA n : n # 0 /\ n # 25)

\* The same, with the three numbers required in the order of the board.
areAdjacentInOrder(dart1, dart2, dart3) ==
    IF isSingleBull(dart1) \/ isSingleBull(dart2) \/ isSingleBull(dart3) THEN TRUE
    ELSE LET nums == BoardNums(dart1, dart2, dart3)
             len  == Len(DARTBOARD_SEQUENCE)
         IN  IF Len(nums) < 3 THEN FALSE
             ELSE \E i \in 0..(len - 1) :
                     /\ nums[1] = DARTBOARD_SEQUENCE[i + 1]
                     /\ nums[2] = DARTBOARD_SEQUENCE[((i + 1) % len) + 1]
                     /\ nums[3] = DARTBOARD_SEQUENCE[((i + 2) % len) + 1]

areAdjacent(dart1, dart2, dart3) ==
    IF isSingleBull(dart1) \/ isSingleBull(dart2) \/ isSingleBull(dart3) THEN TRUE
    ELSE LET nums == BoardNums(dart1, dart2, dart3)
             len  == Len(DARTBOARD_SEQUENCE)
         IN  IF Len(nums) < 3 THEN FALSE
             ELSE \E i \in 0..(len - 1) :
                     /\ Includes(nums, DARTBOARD_SEQUENCE[i + 1])
                     /\ Includes(nums, DARTBOARD_SEQUENCE[((i + 1) % len) + 1])
                     /\ Includes(nums, DARTBOARD_SEQUENCE[((i + 2) % len) + 1])

CONTRACT_IDS ==
    <<"capital", "20", "side", "19", "3row", "18", "color", "17",
      "double", "16", "triple", "15", "57", "14", "bull">>

\* DART_SINGLE_COLORS
DART_SINGLE_COLORS ==
    [n \in 1..20 |->
        IF n \in {20, 18, 13, 10, 2, 3, 7, 8, 14, 12} THEN "black" ELSE "white"]

\* DART_RING_COLORS
DART_RING_COLORS ==
    [n \in 1..20 |->
        IF n \in {20, 18, 13, 10, 2, 3, 7, 8, 14, 12} THEN "red" ELSE "green"]

\* The colour of a miss or of a number outside the tables
NoColor == "none"

getDartColor(dart) ==
    IF dart.number = 25 THEN (IF dart.modifier = "double" THEN "red" ELSE "green")
    ELSE IF dart.number = 0 THEN NoColor
    ELSE IF dart.modifier = "double" \/ dart.modifier = "triple"
         THEN (IF dart.number \in DOMAIN DART_RING_COLORS
               THEN DART_RING_COLORS[dart.number] ELSE NoColor)
    ELSE IF dart.number \in DOMAIN DART_SINGLE_COLORS
         THEN DART_SINGLE_COLORS[dart.number] ELSE NoColor

\* createDart called without a score
NoScore == -1

createDart(number, modifier, score) ==
    [number |-> number,
     modifier |-> modifier,
     score |-> IF score # NoScore THEN score
               ELSE IF number = 0 THEN 0
               ELSE IF number = 25 THEN (IF modifier = "double" THEN 50 ELSE 25)
               ELSE number * (IF modifier = "triple" THEN 3
                              ELSE IF modifier = "double" THEN 2 ELSE 1)]

\* darts.map(d => d.number), darts.map(d => d.modifier)
NumbersOf(items) == [i \in 1..Len(items) |-> items[i].number]

ModifiersOf(items) == [i \in 1..Len(items) |-> items[i].modifier]

\* darts.reduce((sum, d) => sum + d.score, 0)
RECURSIVE TotalScore(_)
TotalScore(items) ==
    IF Len(items) = 0 THEN 0
    ELSE items[1].score + TotalScore(Tail(items))

\* areConsecutive(numbers[0], numbers[1], numbers[2]): the arguments that are
\* undefined, 0 or 25 are filtered out, the rest sorted ascending.
areConsecutive(numbers) ==
    LET nums == SelectSeq(numbers, LAMBDA n : n # 0 /\ n # 25)
    IN  IF Len(nums) < 3 THEN FALSE
        ELSE LET lo  == Min(nums[1], Min(nums[2], nums[3]))
                 hi  == -Min(-nums[1], Min(-nums[2], -nums[3]))
                 mid == nums[1] + nums[2] + nums[3] - lo - hi
             IN  mid = lo + 1 /\ hi = mid + 1

\* A TypeError: a property of undefined is read.
Thrown(v) == [threw |-> TRUE, value |-> v]

\* areAdjacent(darts[0], darts[1], darts[2]) on a non-empty list: with fewer
\* than three darts the || chain of line 396 returns true at a single bull
\* and otherwise reads .number of an undefined argument.
areAdjacentCall(items) ==
    IF Len(items) >= 3 THEN Returned(areAdjacent(items[1], items[2], items[3]))
    ELSE IF \E i \in 1..Len(items) : isSingleBull(items[i]) THEN Returned(TRUE)
    ELSE Thrown(FALSE)

\* new Set(colors).size >= 3 over the colours that are not null
ThreeColors(items) ==
    Cardinality({getDartColor(items[i]) : i \in 1..Len(items)} \ {NoColor}) >= 3

\* The forEach over the numbers in ascending order.
NumberContractsAscending(numbers) ==
    (IF Includes(numbers, 14) THEN <<"14">> ELSE <<>>)
        \o (IF Includes(numbers, 15) THEN <<"15">> ELSE <<>>)
        \o (IF Includes(numbers, 16) THEN <<"16">> ELSE <<>>)
        \o (IF Includes(numbers, 17) THEN <<"17">> ELSE <<>>)
        \o (IF Includes(numbers, 18) THEN <<"18">> ELSE <<>>)
        \o (IF Includes(numbers, 19) THEN <<"19">> ELSE <<>>)
        \o (IF Includes(numbers, 20) THEN <<"20">> ELSE <<>>)

\* [20, 19, 18, 17, 16, 15, 14].forEach(num => ...)
NumberContracts(numbers) ==
    (IF Includes(numbers, 20) THEN <<"20">> ELSE <<>>)
        \o (IF Includes(numbers, 19) THEN <<"19">> ELSE <<>>)
        \o (IF Includes(numbers, 18) THEN <<"18">> ELSE <<>>)
        \o (IF Includes(numbers, 17) THEN <<"17">> ELSE <<>>)
        \o (IF Includes(numbers, 16) THEN <<"16">> ELSE <<>>)
        \o (IF Includes(numbers, 15) THEN <<"15">> ELSE <<>>)
        \o (IF Includes(numbers, 14) THEN <<"14">> ELSE <<>>)

getValidContracts(dartsArg) ==
    IF dartsArg.isNull \/ Len(dartsArg.items) = 0 THEN Returned(<<>>)
    ELSE LET items     == dartsArg.items
             numbers   == NumbersOf(items)
             modifiers == ModifiersOf(items)
             side      == areAdjacentCall(items)
         IN  IF side.threw THEN Thrown(<<>>)
             ELSE Returned(
                    <<"capital">>
                        \o NumberContracts(numbers)
                        \o (IF side.value THEN <<"side">> ELSE <<>>)
                        \o (IF areConsecutive(numbers) THEN <<"3row">> ELSE <<>>)
                        \o (IF ThreeColors(items) THEN <<"color">> ELSE <<>>)
                        \o (IF Includes(modifiers, "double") THEN <<"double">> ELSE <<>>)
                        \o (IF Includes(modifiers, "triple") THEN <<"triple">> ELSE <<>>)
                        \o (IF TotalScore(items) = 57 THEN <<"57">> ELSE <<>>)
                        \o (IF Includes(numbers, 25) THEN <<"bull">> ELSE <<>>))

\* const numericContracts = ['20', '19', '18', '17', '16', '15', '14']
numericContracts == <<"20", "19", "18", "17", "16", "15", "14">>

\* parseInt(contractId) on the ids handed to the engine; NaN for the others
NaN == -1

parseInt(contractId) ==
    CASE contractId = "20" -> 20 [] contractId = "19" -> 19
      [] contractId = "18" -> 18 [] contractId = "17" -> 17
      [] contractId = "16" -> 16 [] contractId = "15" -> 15
      [] contractId = "14" -> 14 [] contractId = "12" -> 12
      [] OTHER -> NaN

\* The numeric branch, counting every dart.
NumericScoreAllDarts(items, targetNumber) == TotalScore(items)

\* for (let dart of darts) if (dart.number === targetNumber) score += dart.score
NumericScore(items, targetNumber) ==
    TotalScore(SelectSeq(items, LAMBDA d : d.number = targetNumber))

calculateContractScore(dartsArg, contractId) ==
    IF dartsArg.isNull \/ Len(dartsArg.items) = 0 THEN 0
    ELSE LET items == dartsArg.items
         IN  IF Includes(numericContracts, contractId)
             THEN NumericScore(items, parseInt(contractId))
             ELSE CASE contractId = "double" ->
                         TotalScore(SelectSeq(items, LAMBDA d : d.modifier = "double"))
                    [] contractId = "triple" ->
                         TotalScore(SelectSeq(items, LAMBDA d : d.modifier = "triple"))
                    [] contractId = "bull" ->
                         TotalScore(SelectSeq(items, LAMBDA d : d.number = 25))
                    [] OTHER -> TotalScore(items)

\* The numeric contract met by the first dart only.
MeetsNumberFirstDart(numbers, targetNumber) == numbers[1] = targetNumber

\* numbers.includes(targetNumber)
MeetsNumber(numbers, targetNumber) == Includes(numbers, targetNumber)

checkContractRequirements(dartsArg, contractId) ==
    IF dartsArg.isNull \/ Len(dartsArg.items) = 0 THEN Returned(FALSE)
    ELSE LET items     == dartsArg.items
             numbers   == NumbersOf(items)
             modifiers == ModifiersOf(items)
         IN  CASE contractId = "capital" -> Returned(TRUE)
               [] contractId = "side" -> areAdjacentCall(items)
               [] contractId = "3row" -> Returned(areConsecutive(numbers))
               [] contractId = "color" -> Returned(ThreeColors(items))
               [] contractId = "double" -> Returned(Includes(modifiers, "double"))
               [] contractId = "triple" -> Returned(Includes(modifiers, "triple"))
               [] contractId = "57" -> Returned(TotalScore(items) = 57)
               [] contractId = "bull" -> Returned(Includes(numbers, 25))
               [] OTHER ->
                    IF parseInt(contractId) # NaN
                    THEN Returned(MeetsNumber(numbers, parseInt(contractId)))
                    ELSE Returned(FALSE)

(***************************************************************************)
(* Contracts: one turn of three darts checked                              *)
(***************************************************************************)

\* Every dart createDart makes from a number and a modifier: 1..20 and the
\* miss (number 0) with each modifier, and both bulls.
ContractDarts ==
    {createDart(n, m, NoScore) : n \in 0..20, m \in Modifiers}
        \cup {createDart(25, "single", NoScore),
              createDart(25, "double", NoScore)}

\* The contract ids handed to the engine: the fifteen contracts, a number
\* that is no contract, a name that is no contract.
ContractIdSet == {CONTRACT_IDS[i] : i \in 1..Len(CONTRACT_IDS)} \cup {"12", "unknown"}

ContractInit ==
    /\ InitFrom(Snapshot(0, 0, 0, FALSE, FALSE, FALSE))
    /\ ClockIdle /\ BoardIdle /\ ContractIdle

\* What the three functions of the engine give for a darts argument.
EngineResult(dartsArg) ==
    [meets |-> [id \in ContractIdSet |-> checkContractRequirements(dartsArg, id)],
     score |-> [id \in ContractIdSet |-> calculateContractScore(dartsArg, id)],
     valid |-> getValidContracts(dartsArg)]

\* The engine is called before any dart is entered: on null or on the empty
\* list.
CheckContracts ==
    /\ ~contractChecked
    /\ \E dartsArg \in {NullDarts, ListOf(<<>>)} :
          /\ contractDarts' = dartsArg
          /\ contractResult' = EngineResult(dartsArg)
    /\ contractChecked' = TRUE
    /\ UNCHANGED <<killerVars, clockVars, boardVars>>

\* A dart is entered, up to the three of a turn, and the engine is called
\* on the darts entered so far.
EnterDart ==
    /\ contractChecked
    /\ ~contractDarts.isNull
    /\ Len(contractDarts.items) < DartsPerTurn
    /\ \E dart \in ContractDarts :
          LET dartsArg == ListOf(Append(contractDarts.items, dart))
          IN  /\ contractDarts' = dartsArg
              /\ contractResult' = EngineResult(dartsArg)
    /\ UNCHANGED contractChecked
    /\ UNCHANGED <<killerVars, clockVars, boardVars>>

ContractNext == CheckContracts \/ EnterDart

SpecContracts == ContractInit /\ [][ContractNext]_vars

\* The darts of the evaluated turn, and the side answer for them.
ContractItems == contractDarts.items

SideMet == contractResult.meets["side"].value

\* Two numbers are immediate neighbours on the board.
Adjacent(a, b) == b \in BoardNeighbours(a)

\* A turn of three darts, none a bull or a miss, has been checked.
NumbersOnly ==
    /\ contractChecked
    /\ Len(ContractItems) = 3
    /\ \A i \in 1..3 : ContractItems[i].number \notin {0, 25}

\* C20 as stated: the turn qualifies for side if and only if every two of the
\* three numbers are immediate neighbours of each other on the board.
C20_PairwiseAdjacent ==
    NumbersOnly =>
        (SideMet <=>
            \A i \in 1..3, j \in 1..3 :
                i < j => Adjacent(ContractItems[i].number, ContractItems[j].number))

\* C20, amended: the turn qualifies if and only if the three numbers are
\* three consecutive entries of the circular board sequence, in any order of
\* throwing: one of them has the other two as its two neighbours.
C20_ThreeConsecutiveOnBoard ==
    NumbersOnly =>
        (SideMet <=>
            \E i \in 1..3, j \in 1..3, k \in 1..3 :
                /\ {i, j, k} = 1..3
                /\ ContractItems[i].number # ContractItems[k].number
                /\ Adjacent(ContractItems[j].number, ContractItems[i].number)
                /\ Adjacent(ContractItems[j].number, ContractItems[k].number))

\* 5, 1 and 20 qualify, thrown in an order that is not the board's.
C20_Witness ==
    /\ contractChecked /\ Len(ContractItems) = 3
    /\ ContractItems[1].number = 5
    /\ ContractItems[2].number = 1
    /\ ContractItems[3].number = 20
    /\ SideMet

\* A turn of three darts has been evaluated.
ThreeDarts == contractChecked /\ Len(ContractItems) = 3

\* C21: every 3-dart turn with a single bull in any position qualifies for
\* side, whatever the other darts; a 3-dart turn with a double bull and no
\* single bull never qualifies, whatever the two other numbers.
C21_SideAndBulls ==
    ThreeDarts =>
        LET single == \E i \in 1..3 : ContractItems[i].number = 25
                                      /\ ContractItems[i].modifier = "single"
            double == \E i \in 1..3 : ContractItems[i].number = 25
                                      /\ ContractItems[i].modifier = "double"
        IN  /\ single => contractResult.meets["side"] = Returned(TRUE)
            /\ (double /\ ~single) => contractResult.meets["side"] = Returned(FALSE)

\* A double bull with the board neighbours 20 and 1 does not qualify.
C21_Witness ==
    /\ ThreeDarts
    /\ ContractItems[1].number = 20
    /\ ContractItems[2] = [number |-> 25, modifier |-> "double", score |-> 50]
    /\ ContractItems[3].number = 1
    /\ contractResult.meets["side"] = Returned(FALSE)

\* The fifteen contracts.
ContractIds == {CONTRACT_IDS[i] : i \in 1..Len(CONTRACT_IDS)}

\* C22: for every contract id, checkContractRequirements returns false and
\* calculateContractScore returns 0 whenever the list has fewer than 3 darts,
\* and an absent list behaves exactly like the empty list.
C22_ShortTurnsFail ==
    contractChecked =>
        /\ (contractDarts.isNull \/ Len(ContractItems) < 3) =>
              \A id \in ContractIds :
                  /\ contractResult.meets[id] = Returned(FALSE)
                  /\ contractResult.score[id] = 0
        /\ contractDarts.isNull => contractResult = EngineResult(ListOf(<<>>))

\* C23: for every 3-dart turn and each of the 15 ids, the id is in
\* getValidContracts(darts) if and only if checkContractRequirements(darts, id)
\* is true; capital is in the result for every non-empty turn, three misses
\* included, and the result is empty for an empty or absent list.
C23_ModesAgree ==
    contractChecked =>
        /\ Len(ContractItems) = 3 =>
              \A id \in ContractIds :
                  Includes(contractResult.valid.value, id)
                      <=> contractResult.meets[id] = Returned(TRUE)
        /\ Len(ContractItems) > 0 =>
              /\ ~contractResult.valid.threw
              /\ Includes(contractResult.valid.value, "capital")
        /\ Len(ContractItems) = 0 => contractResult.valid = Returned(<<>>)

\* The ids of a list are in the order of a reference list, none repeated.
InOrderOf(ids, order) ==
    \A i \in 1..Len(ids), j \in 1..Len(ids) :
        i < j => (/\ Includes(order, ids[i])
                  /\ Includes(order, ids[j])
                  /\ IndexOf(order, ids[i]) < IndexOf(order, ids[j]))

\* C24 as stated: the list returned by getValidContracts is a subsequence of
\* the play order capital, 20, side, 19, 3row, 18, color, 17, double, 16,
\* triple, 15, 57, 14, bull, with no id repeated.
C24_PlayOrder ==
    (contractChecked /\ ~contractResult.valid.threw) =>
        InOrderOf(contractResult.valid.value, CONTRACT_IDS)

\* The order in which getValidContracts appends.
AppendOrder ==
    <<"capital", "20", "19", "18", "17", "16", "15", "14",
      "side", "3row", "color", "double", "triple", "57", "bull">>

\* C24, amended: the list returned by getValidContracts is a subsequence of
\* capital, 20, 19, 18, 17, 16, 15, 14, side, 3row, color, double, triple,
\* 57, bull, with no id repeated.
C24_AppendOrder ==
    (contractChecked /\ ~contractResult.valid.threw) =>
        InOrderOf(contractResult.valid.value, AppendOrder)

\* 19, 3 and 17 are neighbours on the board: 19 and 17 come before side.
C24_Witness ==
    /\ ThreeDarts
    /\ ContractItems[1] = [number |-> 19, modifier |-> "single", score |-> 19]
    /\ ContractItems[2] = [number |-> 3, modifier |-> "single", score |-> 3]
    /\ ContractItems[3] = [number |-> 17, modifier |-> "single", score |-> 17]
    /\ contractResult.valid = Returned(<<"capital", "19", "17", "side">>)

\* C25: checkContractRequirements, calculateContractScore and
\* getValidContracts return a value and never raise an error, for every list
\* of 0 to 3 well-formed darts and every contract id, known or unknown;
\* degenerate inputs give false, 0 or an empty list.
C25_NoErrorOutcome ==
    contractChecked =>
        /\ \A id \in ContractIdSet : ~contractResult.meets[id].threw
        /\ ~contractResult.valid.threw
        /\ Len(ContractItems) = 0 =>
              /\ \A id \in ContractIdSet :
                    /\ contractResult.meets[id] = Returned(FALSE)
                    /\ contractResult.score[id] = 0
              /\ contractResult.valid = Returned(<<>>)

\* Dart d counts towards the score of contract id.
Counts(d, id) ==
    CASE id = "20" -> d.number = 20 [] id = "19" -> d.number = 19
      [] id = "18" -> d.number = 18 [] id = "17" -> d.number = 17
      [] id = "16" -> d.number = 16 [] id = "15" -> d.number = 15
      [] id = "14" -> d.number = 14
      [] id = "double" -> d.modifier = "double"
      [] id = "triple" -> d.modifier = "triple"
      [] id = "bull" -> d.number = 25
      [] OTHER -> TRUE

\* The scores of the first n darts that count towards contract id, summed.
RECURSIVE CountedScore(_, _)
CountedScore(n, id) ==
    IF n = 0 THEN 0
    ELSE CountedScore(n - 1, id)
            + (IF Counts(ContractItems[n], id) THEN ContractItems[n].score ELSE 0)

\* The evaluated turn is the three singles 20, 20, 18.
TwentyTwentyEighteen ==
    /\ ThreeDarts
    /\ ContractItems[1] = [number |-> 20, modifier |-> "single", score |-> 20]
    /\ ContractItems[2] = [number |-> 20, modifier |-> "single", score |-> 20]
    /\ ContractItems[3] = [number |-> 18, modifier |-> "single", score |-> 18]

\* C26 as stated: for a non-empty turn, qualifying or not,
\* calculateContractScore is the sum of the scores of the darts on the target
\* number for 20..14, of the doubles for double, of the triples for triple, of
\* the darts with number 25 for bull, and of all darts for capital, side,
\* 3row, color and 57, so that three singles 20, 20, 18 score 81 on 57.
C26_ScoreWithEightyOne ==
    (contractChecked /\ Len(ContractItems) > 0) =>
        /\ \A id \in ContractIds :
              contractResult.score[id] = CountedScore(Len(ContractItems), id)
        /\ TwentyTwentyEighteen => contractResult.score["57"] = 81

\* C26, amended: the same sums, so that three singles 20, 20, 18 score 58 on
\* 57, which they do not meet.
C26_ScorePerContract ==
    (contractChecked /\ Len(ContractItems) > 0) =>
        /\ \A id \in ContractIds :
              contractResult.score[id] = CountedScore(Len(ContractItems), id)
        /\ TwentyTwentyEighteen =>
              /\ contractResult.score["57"] = 58
              /\ contractResult.meets["57"] = Returned(FALSE)

\* Three singles 20, 20, 18: 58 on contract 57, 40 on contract 20.
C26_Witness ==
    /\ TwentyTwentyEighteen
    /\ contractResult.score["57"] = 58
    /\ contractResult.score["20"] = 40

\* The selective contracts: a score only for the darts that match.
SelectiveIds == {"20", "19", "18", "17", "16", "15", "14", "double", "triple", "bull"}

\* C30: for every 3-dart turn with the scores createDart derives and every
\* contract among 20..14, double, triple and bull, calculateContractScore is
\* greater than 0 if and only if checkContractRequirements is true.
C30_ScoreIffMet ==
    ThreeDarts =>
        \A id \in SelectiveIds :
            (contractResult.score[id] > 0) <=> (contractResult.meets[id] = Returned(TRUE))

(***************************************************************************)
(* Killer: properties of whole games                                       *)
(***************************************************************************)

\* C27: in a game from all lives 0 with nobody eliminated, where only
\* non-eliminated players throw, the thrower of a turn is never eliminated by
\* that turn and at least one player is always non-eliminated; whenever
\* isKillerGameOver is true, getKillerWinner returns a player.
C27_SurvivorAndWinner ==
    /\ thrower # NoPlayer => ~killerEliminated[thrower]
    /\ Alive # {}
    /\ isKillerGameOver(players, killerEliminated) =>
          getKillerWinner(players, killerEliminated) \in Players

\* The thrower is the last player standing.
C27_Witness ==
    /\ op = "game"
    /\ Alive = {thrower}
    /\ isKillerGameOver(players, killerEliminated)
    /\ getKillerWinner(players, killerEliminated) = thrower

\* C28: for a non-eliminated thrower, if the turn treated the thrower as
\* killer for any dart (a damage event was emitted, or the running tally
\* reached 9), the thrower's killer flag is true after applyKillerChanges;
\* and every non-eliminated player with 9 lives has the killer flag true.
C28_KillerStatusAgrees ==
    /\ (op = "turn" /\ ~prev.eliminated[thrower]) =>
          ((\/ HasDamage(changes)
            \/ \E i \in 1..Len(darts) : Tally(i) >= 9)
           => killerIsKiller[thrower])
    /\ \A p \in Players :
          (~killerEliminated[p] /\ killerLives[p] = 9) => killerIsKiller[p]

\* A thrower who was not killer reaches 9 during the turn, attacks with a
\* later dart, and is flagged killer afterwards.
C28_Witness ==
    /\ op = "turn"
    /\ ~prev.eliminated[thrower]
    /\ ~prev.isKiller[thrower]
    /\ \E i \in 1..Len(darts) : Tally(i) >= 9
    /\ HasDamage(changes)
    /\ killerLives[thrower] = 9
    /\ killerIsKiller[thrower]

(***************************************************************************)
(* Clock: preview and batch                                                *)
(***************************************************************************)

\* The preview target while the darts of the recorded list are entered one
\* at a time, each from the target previewed before it.
RECURSIVE PreviewAfter(_)
PreviewAfter(j) ==
    IF j = 0 THEN clockStart
    ELSE getClockPreviewTarget(ListOf(<<ClockItems[j]>>), PreviewAfter(j - 1))

\* C29: for every start position 1..12 and every split of a darts list into
\* a followed by b (each possibly empty), the endPosition of the whole list
\* equals the endPosition of b processed from the endPosition of a; the
\* preview computed dart by dart (clockPosition, moved on at every dart
\* entered) equals the endPosition of the completed turn.
C29_PreviewEqualsBatch ==
    (ClockCalled /\ ~clockDarts.isNull) =>
        /\ \A k \in 0..Len(ClockItems) :
              LET a == SubSeq(ClockItems, 1, k)
                  b == SubSeq(ClockItems, k + 1, Len(ClockItems))
              IN  clockResult.endPosition =
                     getClockPreviewTarget(ListOf(b),
                         getClockPreviewTarget(ListOf(a), clockStart))
        /\ clockPosition = clockResult.endPosition

\* Three darts that each hit the target previewed before them.
C29_Witness ==
    /\ ClockCalled
    /\ Len(ClockItems) = 3
    /\ clockStart < PreviewAfter(1)
    /\ PreviewAfter(1) < PreviewAfter(2)
    /\ PreviewAfter(2) < PreviewAfter(3)
    /\ clockResult.endPosition = PreviewAfter(3)

====
